---- MODULE Spec2Model ----
(***************************************************************************)
(* Model of the CosmWasm module of beaker:                                 *)
(*   src/cli/src/modules/cw/ops.rs   new, store_code, from_mnemonic,       *)
(*                                   read_wasm                             *)
(*   src/modules/cw/src/lib.rs       CWConfig, CWModule::new_              *)
(* store_code is modelled as a sequential process per invocation, one      *)
(* action per statement group, run against a node (height, accounts,       *)
(* committed and indexed transactions).                                    *)
(***************************************************************************)
EXTENDS Integers, Sequences, FiniteSets, TLC

VARIABLES inv, height, chain, committed, indexed, fs, gens

vars == <<inv, height, chain, committed, indexed, fs, gens>>

\* ------------------------------------------------------------- bounds
MaxHeight == 1
MaxGens == 2

\* The invocations of store_code: two, started by two runs of the CLI that
\* share nothing but the node.
Procs == {"first", "second"}

\* ------------------------------------------------------------ options
None == [tag |-> "None"]
Some(x) == [tag |-> "Some", v |-> x]
IsSome(o) == o.tag = "Some"

\* ------------------------------------------------- the file system, config
\* <root>: what ctx.root() returns.
Root == <<"ws">>

\* Files under <root>/artifacts. Only "counter" has been built.
ArtifactFiles == {<<"ws", "artifacts", "counter.wasm">>}
FileBytes(path) == <<"wasm", path[Len(path)]>>

\* The account configuration (global_config.accounts()).
Accounts ==
  [alice   |-> [type |-> "FromMnemonic",   secret |-> "phrase-alice"],
   carol   |-> [type |-> "FromMnemonic",   secret |-> "phrase-carol"],
   mallory |-> [type |-> "FromMnemonic",   secret |-> "not a phrase"],
   bob     |-> [type |-> "FromPrivateKey", secret |-> "key-bob"],
   dave    |-> [type |-> "FromPrivateKey", secret |-> "short"]]

\* What the bip32 / secp256k1 parsers accept.
ValidPhrases == {"phrase-alice", "phrase-carol"}
ValidKeyBytes == {"key-bob"}
ParsablePaths == {"m/44'/118'/0'/0/0", "m/0/0/0/0/0/0/0/0/0/0"}
DerivablePaths == {"m/44'/118'/0'/0/0"}
ValidPrefixes == {"osmo"}
ValidDenoms == {"uosmo"}
ValidChainIds == {"localnet"}

\* The inputs of an invocation of store_code: its arguments and the global
\* configuration it finds. An input enters the state at the statement that
\* first uses it.
SignerAliases == {"alice", "bob", "carol", "mallory", "dave", "nobody"}
DerivationPaths == {"m/44'/118'/0'/0/0", "m/0/0/0/0/0/0/0/0/0/0", "nopath"}
AccountPrefixes == {"osmo", "OSMO!"}
ContractNames == {"counter", "ghost"}
Denoms == {"uosmo", "u!"}
ChainIds == {"localnet", ""}
GasAmounts == {5}
GasLimits == {9}
TimeoutHeights == {0}

WasmFileName(cn) == IF cn = "counter" THEN "counter.wasm" ELSE "ghost.wasm"

\* ------------------------------------------------------------- results
Ok(x) == [kind |-> "Ok", v |-> x]
Err(e, d) == [kind |-> "Err", error |-> e, detail |-> d]
Panicked(e) == [kind |-> "Panic", error |-> e, detail |-> <<>>]

\* ---------------------------------------------------------------- keys
\* bip32::XPrv::derive_from_path(seed(phrase), path) as a signing key.
MnemonicKey(phrase, path) == [seed |-> phrase, path |-> path]
\* secp256k1::SigningKey::from_bytes(bytes)
BytesKey(bytes) == [seed |-> bytes, path |-> "raw"]

PublicKey(key) == [pub_of |-> key]
AccountId(prefix, pub) == [prefix |-> prefix, pub |-> pub]

from_mnemonic(phrase, derivation_path) ==
  IF phrase \notin ValidPhrases THEN Err("InvalidMnemonic", <<phrase>>)
  ELSE IF derivation_path \notin ParsablePaths
       THEN Err("InvalidDerivationPath", <<derivation_path>>)
  ELSE IF derivation_path \notin DerivablePaths
       THEN Panicked("derive_from_path unwrap")
  ELSE Ok(MnemonicKey(phrase, derivation_path))

\* Mutant: an unknown alias falls back to the first configured account.
SignerPriv_FallBack(derivation_path, signer_account) ==
  LET a == IF signer_account \in DOMAIN Accounts
           THEN Accounts[signer_account] ELSE Accounts["alice"]
  IN IF a.type = "FromMnemonic"
     THEN from_mnemonic(a.secret, derivation_path)
     ELSE IF a.secret \in ValidKeyBytes
          THEN Ok(BytesKey(a.secret))
          ELSE Panicked("SigningKey::from_bytes unwrap")

\* The match on global_config.accounts().get(signer_account).
SignerPriv(derivation_path, signer_account) ==
  IF signer_account \notin DOMAIN Accounts
  THEN Err("signer account is not defined", <<signer_account>>)
  ELSE LET a == Accounts[signer_account] IN
       IF a.type = "FromMnemonic"
       THEN from_mnemonic(a.secret, derivation_path)
       ELSE IF a.secret \in ValidKeyBytes
            THEN Ok(BytesKey(a.secret))
            ELSE Panicked("SigningKey::from_bytes unwrap")

\* signer_pub.account_id(account_prefix).unwrap()
SignerAccountId(prefix, pub) ==
  IF prefix \in ValidPrefixes THEN Ok(AccountId(prefix, pub))
  ELSE Panicked("account_id unwrap")

\* ------------------------------------------------------------ artifact
WasmPath(contract_name) == Root \o <<"artifacts", WasmFileName(contract_name)>>

\* Mutant: the artifact is looked for in the root, not in <root>/artifacts.
read_wasm_InRoot(contract_name, readOk) ==
  LET wasm_path == Root \o <<WasmFileName(contract_name)>> IN
  IF wasm_path \notin ArtifactFiles
  THEN Err("not found, please build and optimize the contract before store code",
           wasm_path)
  ELSE Ok(FileBytes(wasm_path))

\* read_wasm once ctx.root() has succeeded; readOk: read_to_end succeeds.
read_wasm(contract_name, readOk) ==
  LET wasm_path == WasmPath(contract_name) IN
  IF wasm_path \notin ArtifactFiles
  THEN Err("not found, please build and optimize the contract before store code",
           wasm_path)
  ELSE IF ~readOk THEN Err("IoError", wasm_path)
  ELSE Ok(FileBytes(wasm_path))

\* ---------------------------------------------------------- transaction
\* Coin { amount, denom: denom.parse().unwrap() } and Fee::from_amount_and_gas
BuildFee(gas_amount, denom, gas_limit) ==
  IF denom \in ValidDenoms
  THEN Ok([amount |-> [amount |-> gas_amount, denom |-> denom],
           gas_limit |-> gas_limit])
  ELSE Panicked("denom parse unwrap")

\* MsgStoreCode { sender, wasm_byte_code, instantiate_permission: None }.to_any()
BuildMsgStoreCode(sender, wasm) ==
  [type_url |-> "/cosmwasm.wasm.v1.MsgStoreCode",
   value |-> [sender |-> sender, wasm_byte_code |-> wasm,
              instantiate_permission |-> None]]

\* tx::Body::new(vec![msg_store_code], "", *timeout_height)
TxBody(msg, timeout_height) ==
  [messages |-> <<msg>>, memo |-> "", timeout_height |-> timeout_height]

\* SignerInfo::single_direct(Some(signer_pub), acc.sequence).auth_info(fee)
AuthInfo(signer_pub, sequence, fee) ==
  [signer_infos |-> <<[public_key |-> signer_pub, sequence |-> sequence]>>,
   fee |-> fee]

\* Protobuf encoding of a message: the bytes determine the message.
Encode(m) == [bytes_of |-> m]
Decode(b) == b.bytes_of

\* SignDoc::new(&tx_body, &auth_info, &chain_id, account_number)
NewSignDoc(body, auth_info, chain_id, account_number) ==
  [body_bytes |-> Encode(body), auth_info_bytes |-> Encode(auth_info),
   chain_id |-> chain_id, account_number |-> account_number]

Signature(key, doc) == [signed_by |-> key, over |-> doc]

\* sign_doc.sign(&signer_priv): the raw transaction
Sign(doc, key) ==
  [body_bytes |-> doc.body_bytes, auth_info_bytes |-> doc.auth_info_bytes,
   signatures |-> <<Signature(key, doc)>>]

TxHash(tx_raw) == [hash_of |-> tx_raw]

IsErrCode(code) == code # 0

\* Mutant: deliver_tx is looked at before check_tx.
InterpretResponse_DeliverFirst(resp) ==
  IF IsErrCode(resp.deliver_tx.code)
  THEN Err("deliver_tx failed", <<resp.deliver_tx.code>>)
  ELSE IF IsErrCode(resp.check_tx.code)
       THEN Err("check_tx failed", <<resp.check_tx.code>>)
  ELSE Ok(resp)

\* Mutant: the deliver_tx code is not looked at.
InterpretResponse_IgnoreDeliver(resp) ==
  IF IsErrCode(resp.check_tx.code)
  THEN Err("check_tx failed", <<resp.check_tx.code>>)
  ELSE Ok(resp)

\* Mutant: the check_tx code is not looked at.
InterpretResponse_IgnoreCheck(resp) ==
  IF IsErrCode(resp.deliver_tx.code)
  THEN Err("deliver_tx failed", <<resp.deliver_tx.code>>)
  ELSE Ok(resp)

\* Lines 148-160: the outcome decided from the commit response.
InterpretResponse(resp) ==
  IF IsErrCode(resp.check_tx.code)
  THEN Err("check_tx failed", <<resp.check_tx.code>>)
  ELSE IF IsErrCode(resp.deliver_tx.code)
       THEN Err("deliver_tx failed", <<resp.deliver_tx.code>>)
  ELSE Ok(resp)

\* ---------------------------------------------------------------- node
\* The node the local client talks to: its chain id and address prefix.
NodeChainId == "localnet"
NodePrefix == "osmo"

GoodPath == "m/44'/118'/0'/0/0"
AliceId == AccountId(NodePrefix, PublicKey(MnemonicKey("phrase-alice", GoodPath)))
BobId == AccountId(NodePrefix, PublicKey(BytesKey("key-bob")))

\* Funded accounts at genesis; carol's is not among them.
GenesisAccounts ==
  (AliceId :> [account_number |-> 7, sequence |-> 0]) @@
  (BobId :> [account_number |-> 8, sequence |-> 0])

SignerOf(tx_raw) == Decode(tx_raw.auth_info_bytes).signer_infos[1]
SignerIdOf(tx_raw) == AccountId(NodePrefix, SignerOf(tx_raw).public_key)

\* The node's admission check: known account, expected sequence, and a
\* signature over the SignDoc the node rebuilds from its own state.
NodeCheckTx(tx_raw, ch) ==
  LET si == SignerOf(tx_raw)
      id == SignerIdOf(tx_raw)
  IN IF id \notin DOMAIN ch THEN 9
     ELSE IF si.sequence # ch[id].sequence THEN 32
     ELSE IF tx_raw.signatures[1] #
               Signature(si.public_key.pub_of,
                         [body_bytes |-> tx_raw.body_bytes,
                          auth_info_bytes |-> tx_raw.auth_info_bytes,
                          chain_id |-> NodeChainId,
                          account_number |-> ch[id].account_number])
          THEN 4
     ELSE 0

\* client.account(id): the account, or why there is none to return.
NodeAccount(id, ch, rpcUp) ==
  IF ~rpcUp THEN Err("RpcUnavailable", <<>>)
  ELSE IF id \notin DOMAIN ch THEN Err("AccountNotFound", <<>>)
  ELSE Ok(ch[id])

\* ---------------------------------------------------------- store_code
NetworkSteps == {"account", "first_block", "broadcast", "poll_tx"}

NewInvocation ==
  [pc |-> "start", trace |-> <<>>,
   signer_account |-> None, derivation_path |-> None, account_prefix |-> None,
   contract_name |-> None, denom |-> None, gas_amount |-> None,
   gas_limit |-> None, timeout_height |-> None, chain_id |-> None,
   signer_priv |-> None, signer_account_id |-> None, wasm |-> None,
   fee |-> None, msg_store_code |-> None, acc |-> None, sign_doc |-> None,
   tx_raw |-> None, sent |-> None, resp |-> None, outcome |-> None]

Step(r, name) == [r EXCEPT !.trace = Append(@, name)]
Finish(r, result) == [r EXCEPT !.pc = "done", !.outcome = Some(result)]
Set(p, r) == inv' = [inv EXCEPT ![p] = r]

NodeUnchanged == UNCHANGED <<height, chain, committed, indexed>>
ScaffoldUnchanged == UNCHANGED <<fs, gens>>

\* Lines 81-93: the call, and ctx.global_config()?.
LoadConfig(p) ==
  /\ inv[p].pc = "start"
  /\ \E cfgOk \in BOOLEAN :
       LET r == Step(inv[p], "config") IN
       IF cfgOk
       THEN Set(p, [r EXCEPT !.pc = "resolve_key"])
       ELSE Set(p, Finish(r, Err("ConfigError", <<>>)))
  /\ NodeUnchanged /\ ScaffoldUnchanged

\* Lines 95-105: the signing key, its public key and account id.
ResolveKey(p) ==
  /\ inv[p].pc = "resolve_key"
  /\ \E sa \in SignerAliases, dp \in DerivationPaths, pf \in AccountPrefixes :
       LET r == Step([inv[p] EXCEPT !.signer_account = Some(sa),
                                    !.derivation_path = Some(dp),
                                    !.account_prefix = Some(pf)], "key")
           k == SignerPriv(dp, sa)
       IN IF k.kind # "Ok" THEN Set(p, Finish(r, k))
          ELSE LET id == SignerAccountId(pf, PublicKey(k.v)) IN
               IF id.kind # "Ok" THEN Set(p, Finish(r, id))
               ELSE Set(p, [r EXCEPT !.pc = "read_wasm",
                                     !.signer_priv = Some(k.v),
                                     !.signer_account_id = Some(id.v)])
  /\ NodeUnchanged /\ ScaffoldUnchanged

\* Line 107: read_wasm(ctx, contract_name)?, ctx.root()? first.
ReadWasm(p) ==
  /\ inv[p].pc = "read_wasm"
  /\ \E cn \in ContractNames, rootOk \in BOOLEAN, readOk \in BOOLEAN :
       LET r == Step([inv[p] EXCEPT !.contract_name = Some(cn)], "wasm")
           w == read_wasm(cn, readOk)
       IN IF ~rootOk THEN Set(p, Finish(r, Err("RootError", <<>>)))
          ELSE IF w.kind # "Ok" THEN Set(p, Finish(r, w))
          ELSE Set(p, [r EXCEPT !.pc = "build_msg", !.wasm = Some(w.v)])
  /\ NodeUnchanged /\ ScaffoldUnchanged

\* Lines 111-123: the fee and the store-code message.
BuildMsg(p) ==
  /\ inv[p].pc = "build_msg"
  /\ \E dn \in Denoms, ga \in GasAmounts, gl \in GasLimits :
       LET r == Step([inv[p] EXCEPT !.denom = Some(dn), !.gas_amount = Some(ga),
                                    !.gas_limit = Some(gl)], "msg")
           f == BuildFee(ga, dn, gl)
       IN IF f.kind # "Ok" THEN Set(p, Finish(r, f))
          ELSE Set(p, [r EXCEPT !.pc = "account", !.fee = Some(f.v),
                         !.msg_store_code =
                            Some(BuildMsgStoreCode(r.signer_account_id.v, r.wasm.v))])
  /\ NodeUnchanged /\ ScaffoldUnchanged

\* Mutant: a failed query is replaced by a default account.
WithContext_Swallow(res, context) ==
  IF res.kind = "Err" THEN Ok([account_number |-> 0, sequence |-> 0]) ELSE res

\* .with_context(|| "Account can't be initialized"): the error is kept, wrapped.
WithContext(res, context) ==
  IF res.kind = "Err" THEN Err(context, <<res.error>>) ELSE res

\* Lines 126-130: client.account(..).await.with_context(..)?
QueryAccount(p) ==
  /\ inv[p].pc = "account"
  /\ \E rpcUp \in BOOLEAN :
       LET r == Step(inv[p], "account")
           a == WithContext(NodeAccount(r.signer_account_id.v, chain, rpcUp),
                            "Account can't be initialized")
       IN IF a.kind # "Ok" THEN Set(p, Finish(r, a))
          ELSE Set(p, [r EXCEPT !.pc = "sign", !.acc = Some(a.v)])
  /\ NodeUnchanged /\ ScaffoldUnchanged

\* Mutant: account number and sequence change places.
BuildSignDoc_Swapped(r) ==
  NewSignDoc(TxBody(r.msg_store_code.v, r.timeout_height.v),
             AuthInfo(PublicKey(r.signer_priv.v), r.acc.v.account_number, r.fee.v),
             r.chain_id.v, r.acc.v.sequence)

\* Lines 132-140: the SignDoc of the invocation.
BuildSignDoc(r) ==
  NewSignDoc(TxBody(r.msg_store_code.v, r.timeout_height.v),
             AuthInfo(PublicKey(r.signer_priv.v), r.acc.v.sequence, r.fee.v),
             r.chain_id.v, r.acc.v.account_number)

\* Lines 132-143: body, auth info, SignDoc, signature, and the RPC client.
BuildAndSign(p) ==
  /\ inv[p].pc = "sign"
  /\ \E ci \in ChainIds, th \in TimeoutHeights, addrOk \in BOOLEAN :
       LET r == Step([inv[p] EXCEPT !.chain_id = Some(ci),
                                    !.timeout_height = Some(th)], "sign")
           doc == BuildSignDoc(r)
       IN IF ci \notin ValidChainIds
          THEN Set(p, Finish(r, Panicked("chain_id parse unwrap")))
          ELSE LET s == [r EXCEPT !.sign_doc = Some(doc),
                                  !.tx_raw = Some(Sign(doc, r.signer_priv.v))] IN
               IF ~addrOk THEN Set(p, Finish(s, Panicked("HttpClient::new unwrap")))
               ELSE Set(p, [s EXCEPT !.pc = "poll_first_block"])
  /\ NodeUnchanged /\ ScaffoldUnchanged

Last(q) == q[Len(q)]
StepOnce(r, name) == IF Last(r.trace) = name THEN r ELSE Step(r, name)

\* Line 144: dev::poll_for_first_block(&rpc_client).await, one poll. The
\* helper returns nothing: it comes back once the node has a block, keeps
\* polling, or (being a library helper outside store_code) panics.
PollForFirstBlock(p) ==
  /\ inv[p].pc = "poll_first_block"
  /\ \E gaveUp \in BOOLEAN :
       LET r == StepOnce(inv[p], "first_block") IN
       IF height >= 1 THEN Set(p, [r EXCEPT !.pc = "broadcast"])
       ELSE IF gaveUp THEN Set(p, Finish(r, Panicked("poll_for_first_block")))
       ELSE Set(p, r)
  /\ NodeUnchanged /\ ScaffoldUnchanged

\* What the transaction store_code hands to broadcast_commit.
BroadcastTx(r) == r.tx_raw.v

\* The node's handling of a broadcast: admission, then execution in a block.
NodeCommit(tx_raw, check, deliver) ==
  IF IsErrCode(check)
  THEN UNCHANGED <<chain, committed>>
  ELSE LET id == SignerIdOf(tx_raw) IN
       /\ chain' = [chain EXCEPT ![id].sequence = @ + 1]
       /\ committed' = committed \cup
            {[tx |-> tx_raw, hash |-> TxHash(tx_raw), code |-> deliver]}

\* Lines 146-162: broadcast_commit(..).await.unwrap() and its interpretation.
BroadcastCommit(p) ==
  /\ inv[p].pc = "broadcast"
  /\ \E rpc \in {"ok", "lost", "down"}, reject \in {0, 13}, deliver \in {0, 11} :
       LET r0 == Step(inv[p], "broadcast")
           tx == BroadcastTx(r0)
           r == [r0 EXCEPT !.sent = Some(tx)]
           admitted == NodeCheckTx(tx, chain)
           check == IF IsErrCode(admitted) THEN admitted ELSE reject
           resp == [check_tx |-> [code |-> check],
                    deliver_tx |-> [code |-> deliver], hash |-> TxHash(tx)]
           out == InterpretResponse(resp)
       IN /\ IF rpc = "down" THEN UNCHANGED <<chain, committed>>
             ELSE NodeCommit(tx, check, deliver)
          /\ IF rpc # "ok"
             THEN Set(p, Finish(r, Panicked("broadcast_commit unwrap")))
             ELSE IF out.kind # "Ok"
                  THEN Set(p, Finish([r EXCEPT !.resp = Some(resp)], out))
                  ELSE Set(p, [r EXCEPT !.resp = Some(resp), !.pc = "poll_tx"])
  /\ UNCHANGED <<height, indexed>> /\ ScaffoldUnchanged

\* Lines 164-169: dev::poll_for_tx(&rpc_client, hash).await, one poll: the
\* transaction is found and store_code returns Ok(()), or the helper keeps
\* polling, or panics.
PollForTx(p) ==
  /\ inv[p].pc = "poll_tx"
  /\ \E gaveUp \in BOOLEAN :
       LET r == StepOnce(inv[p], "poll_tx") IN
       IF r.resp.v.hash \in indexed THEN Set(p, Finish(r, Ok(<<>>)))
       ELSE IF gaveUp THEN Set(p, Finish(r, Panicked("poll_for_tx")))
       ELSE Set(p, r)
  /\ NodeUnchanged /\ ScaffoldUnchanged

\* The node produces a block.
ProduceBlock ==
  /\ height < MaxHeight
  /\ height' = height + 1
  /\ UNCHANGED <<inv, chain, committed, indexed>> /\ ScaffoldUnchanged

\* The node's indexer catches up with a committed transaction.
IndexTx ==
  /\ \E c \in committed :
       /\ c.hash \notin indexed
       /\ indexed' = indexed \cup {c.hash}
  /\ UNCHANGED <<inv, height, chain, committed>> /\ ScaffoldUnchanged

Init ==
  /\ inv = [p \in Procs |-> NewInvocation]
  /\ height = 0
  /\ chain = GenesisAccounts
  /\ committed = {}
  /\ indexed = {}
  /\ fs = {}
  /\ gens = <<>>

Next ==
  \/ \E p \in Procs : LoadConfig(p)
  \/ \E p \in Procs : ResolveKey(p)
  \/ \E p \in Procs : ReadWasm(p)
  \/ \E p \in Procs : BuildMsg(p)
  \/ \E p \in Procs : QueryAccount(p)
  \/ \E p \in Procs : BuildAndSign(p)
  \/ \E p \in Procs : PollForFirstBlock(p)
  \/ \E p \in Procs : BroadcastCommit(p)
  \/ \E p \in Procs : PollForTx(p)
  \/ ProduceBlock
  \/ IndexTx

Spec == Init /\ [][Next]_vars

\* ------------------------------------------------------- scaffolding
\* A PathBuf: absolute or relative, and its components.
PathBufFrom(str) ==
  CASE str = "contracts" -> [abs |-> FALSE, comps |-> <<"contracts">>]
    [] str = "custom-path" -> [abs |-> FALSE, comps |-> <<"custom-path">>]
    [] str = "/srv/cw" -> [abs |-> TRUE, comps |-> <<"srv", "cw">>]

\* PathBuf::join: an absolute argument replaces the base.
Join(base, path) ==
  IF path.abs THEN path
  ELSE [abs |-> base.abs, comps |-> base.comps \o path.comps]

\* ctx.root() and the process's working directory.
RootDir == [abs |-> TRUE, comps |-> Root]
Cwd == [abs |-> TRUE, comps |-> <<"tmp">>]

\* impl Default for CWConfig
DefaultCWConfig ==
  [contract_dir |-> "contracts", template_repo |-> "InterWasm/cw-template"]

CWConfigs ==
  {DefaultCWConfig,
   [contract_dir |-> "/srv/cw", template_repo |-> "InterWasm/cw-template"]}

ContractNamesNew == {"counter-1", "counter-2", "counter-3"}
Versions == {None, Some("0.16")}
TargetDirs == {None, Some(PathBufFrom("custom-path"))}

\* version.unwrap_or("main")
TemplateVersion(version) == IF IsSome(version) THEN version.v ELSE "main"

\* Mutant: the given target_dir is ignored.
ModuleTargetDir_IgnoreGiven(cfg, target_dir) == PathBufFrom(cfg.contract_dir)

\* lib.rs: target_dir.unwrap_or(PathBuf::from(cfg.contract_dir))
ModuleTargetDir(cfg, target_dir) ==
  IF IsSome(target_dir) THEN target_dir.v ELSE PathBufFrom(cfg.contract_dir)

\* ops.rs: target_dir.unwrap_or(ctx.root()?.join(PathBuf::from(cfg.contract_dir)))
CliTargetDir(cfg, target_dir) ==
  IF IsSome(target_dir) THEN target_dir.v
  ELSE Join(RootDir, PathBufFrom(cfg.contract_dir))

\* Template::new(name, repo, version, target_dir, None)
TemplateNew(name, repo, version, target_dir) ==
  [name |-> name, repo |-> repo, version |-> version, target_dir |-> target_dir]

\* Where Template::generate puts the contract, as an absolute path.
Destination(t) == Join(Cwd, t.target_dir).comps \o <<t.name>>

Exists(files, path) == \E e \in files : e.path = path

\* Template::generate: the contract directory appears, from the template
\* repository at the version; an existing destination is refused.
Generate(t, netOk) ==
  IF netOk /\ ~Exists(fs, Destination(t))
  THEN fs' = fs \cup {[path |-> Destination(t), repo |-> t.repo,
                       version |-> t.version]}
  ELSE FALSE

Request(via, cfg, name, version, target_dir) ==
  [via |-> via, cfg |-> cfg, name |-> name, version |-> version,
   target_dir |-> target_dir]

\* lib.rs CWModule::new_
ModuleNew ==
  /\ Len(gens) < MaxGens
  /\ \E cfg \in CWConfigs, name \in ContractNamesNew, version \in Versions,
        target_dir \in TargetDirs, netOk \in BOOLEAN :
       LET t == TemplateNew(name, cfg.template_repo, TemplateVersion(version),
                            ModuleTargetDir(cfg, target_dir))
       IN /\ Generate(t, netOk)
          /\ gens' = Append(gens, Request("module", cfg, name, version, target_dir))
  /\ UNCHANGED <<inv, height, chain, committed, indexed>>

\* ops.rs new
CliNew ==
  /\ Len(gens) < MaxGens
  /\ \E cfg \in CWConfigs, name \in ContractNamesNew, version \in Versions,
        target_dir \in TargetDirs, netOk \in BOOLEAN, ctxOk \in BOOLEAN :
       LET t == TemplateNew(name, cfg.template_repo, TemplateVersion(version),
                            CliTargetDir(cfg, target_dir))
       IN /\ ctxOk
          /\ Generate(t, netOk)
          /\ gens' = Append(gens, Request("cli", cfg, name, version, target_dir))
  /\ UNCHANGED <<inv, height, chain, committed, indexed>>

ScaffoldNext == ModuleNew \/ CliNew

ScaffoldSpec == Init /\ [][ScaffoldNext]_vars

\* ------------------------------------------------------------ properties
Outcome(r) == r.outcome.v
Finished(r) == r.pc = "done" /\ IsSome(r.outcome)
Net(r) == SelectSeq(r.trace, LAMBDA x : x \in NetworkSteps)
IsPrefix(q, t) == Len(q) <= Len(t) /\ \A i \in 1..Len(q) : q[i] = t[i]
Has(q, x) == \E i \in 1..Len(q) : q[i] = x
Count(q, x) == Cardinality({i \in 1..Len(q) : q[i] = x})

\* C1: once a commit response has been returned, the outcome follows from
\* the pair (check_tx code, deliver_tx code): a failed check_tx is reported
\* as a check_tx failure whatever deliver_tx says, an ok check_tx with a
\* failed deliver_tx as a deliver_tx failure, and success needs both ok.
C1_OutcomeFromCodes ==
  \A p \in Procs :
    LET r == inv[p] IN
    /\ IsSome(r.resp) =>
         LET c == r.resp.v.check_tx.code
             d == r.resp.v.deliver_tx.code
         IN /\ c # 0 => Finished(r) /\ Outcome(r) = Err("check_tx failed", <<c>>)
            /\ (c = 0 /\ d # 0) =>
                 Finished(r) /\ Outcome(r) = Err("deliver_tx failed", <<d>>)
            /\ (c = 0 /\ d = 0) =>
                 \/ r.pc = "poll_tx" /\ ~IsSome(r.outcome)
                 \/ Finished(r) /\ Outcome(r).kind # "Err"
    /\ (IsSome(r.outcome) /\ Outcome(r).kind = "Ok") =>
         /\ IsSome(r.resp)
         /\ r.resp.v.check_tx.code = 0
         /\ r.resp.v.deliver_tx.code = 0

\* A response whose check_tx and deliver_tx both failed, reported as check_tx.
C1_Witness ==
  \E p \in Procs :
    /\ IsSome(inv[p].resp)
    /\ inv[p].resp.v.check_tx.code # 0
    /\ inv[p].resp.v.deliver_tx.code # 0
    /\ Finished(inv[p])
    /\ Outcome(inv[p]).error = "check_tx failed"

\* C3: a signer alias absent from the account configuration ends the
\* invocation at key resolution with an error naming the alias, and no
\* node interaction is made.
C3_UnknownSignerFailsOffline ==
  \A p \in Procs :
    LET r == inv[p] IN
    (IsSome(r.signer_account) /\
       r.signer_account.v \notin {"alice", "bob", "carol", "mallory", "dave"}) =>
      /\ Finished(r)
      /\ Outcome(r) = Err("signer account is not defined", <<r.signer_account.v>>)
      /\ r.trace = <<"config", "key">>
      /\ Net(r) = <<>>
      /\ ~IsSome(r.sent)

C3_Witness ==
  \E p \in Procs :
    /\ inv[p].signer_account = Some("nobody")
    /\ Finished(inv[p])
    /\ Outcome(inv[p]).kind = "Err"

\* C5: a failure of a pipeline step (invalid raw key bytes, derivation
\* failure, malformed fee denom, broadcast RPC failure, ...) ends the
\* invocation with a returned error of its kind: none of them ends it in
\* any other way (a panic).
C5_EveryFailureIsReturned ==
  \A p \in Procs :
    Finished(inv[p]) =>
      ~(/\ Outcome(inv[p]).kind = "Panic"
        /\ Outcome(inv[p]).error \in
             {"SigningKey::from_bytes unwrap", "derive_from_path unwrap",
              "denom parse unwrap", "broadcast_commit unwrap"})

\* C6: the node interactions of an invocation form a prefix of account
\* query, readiness wait, broadcast, finality wait; the broadcast happens at
\* most once and only once the node has a block; the finality wait starts
\* only after a broadcast answered ok twice; a failed broadcast is the last
\* node interaction.
C6_NodeInteractionOrder ==
  \A p \in Procs :
    LET r == inv[p] IN
    /\ IsPrefix(Net(r), <<"account", "first_block", "broadcast", "poll_tx">>)
    /\ Count(r.trace, "broadcast") <= 1
    /\ Has(r.trace, "broadcast") => height >= 1 /\ IsSome(r.sent)
    /\ IsSome(r.sent) => Has(r.trace, "broadcast")
    /\ Has(r.trace, "poll_tx") =>
         /\ IsSome(r.resp)
         /\ r.resp.v.check_tx.code = 0
         /\ r.resp.v.deliver_tx.code = 0
    /\ (Has(r.trace, "broadcast") /\
          (~IsSome(r.resp) \/ r.resp.v.check_tx.code # 0
                           \/ r.resp.v.deliver_tx.code # 0)) =>
         /\ Finished(r)
         /\ Outcome(r).kind # "Ok"
         /\ Last(r.trace) = "broadcast"

\* A finished invocation that made all four interactions.
C6_Witness ==
  \E p \in Procs :
    /\ Net(inv[p]) = <<"account", "first_block", "broadcast", "poll_tx">>
    /\ Finished(inv[p])
    /\ \E q \in Procs : Finished(inv[q]) /\ Last(inv[q].trace) = "broadcast"

ArtifactAbsent(r) ==
  IsSome(r.contract_name) /\
    <<"ws", "artifacts", WasmFileName(r.contract_name.v)>> \notin ArtifactFiles

\* C2 as stated: with the artifact absent, store_code fails naming the
\* expected path before any key derivation and before any network call.
C2_FailsBeforeKeyDerivation ==
  \A p \in Procs :
    LET r == inv[p] IN
    (ArtifactAbsent(r) /\ Finished(r) /\ Outcome(r).kind = "Err"
       /\ Outcome(r).detail = <<"ws", "artifacts", "ghost.wasm">>) =>
      /\ ~Has(r.trace, "key")
      /\ ~IsSome(r.signer_priv)
      /\ Net(r) = <<>>

\* C2 amended: when the artifact read finds the file absent, the invocation
\* ends there, after the key has been derived and before any network call,
\* with an error naming the expected path (or with the error of ctx.root()).
C2_AbsentArtifactFailsAfterKeyBeforeNetwork ==
  \A p \in Procs :
    LET r == inv[p] IN
    ArtifactAbsent(r) =>
      /\ Finished(r)
      /\ r.trace = <<"config", "key", "wasm">>
      /\ IsSome(r.signer_priv)
      /\ Net(r) = <<>>
      /\ ~IsSome(r.sent)
      /\ \/ Outcome(r) = Err("RootError", <<>>)
         \/ /\ Outcome(r).kind = "Err"
            /\ Outcome(r).detail = <<"ws", "artifacts", "ghost.wasm">>
            /\ Outcome(r).error =
                 "not found, please build and optimize the contract before store code"

C2_Witness ==
  \E p \in Procs :
    /\ inv[p].contract_name = Some("ghost")
    /\ Finished(inv[p])
    /\ Outcome(inv[p]).detail = <<"ws", "artifacts", "ghost.wasm">>
    /\ Has(inv[p].trace, "key")

\* C4: when the account query finds no account, the invocation ends with the
\* account-not-found error, wrapped, with no transaction body, SignDoc or
\* signature built, no broadcast, and a single query.
C4_AccountNotFoundIsTerminal ==
  \A p \in Procs :
    LET r == inv[p] IN
    (Has(r.trace, "account") /\ r.signer_account_id.v \notin DOMAIN chain) =>
      /\ Finished(r)
      /\ Outcome(r).kind = "Err"
      /\ Outcome(r).error = "Account can't be initialized"
      /\ Outcome(r).detail \in {<<"AccountNotFound">>, <<"RpcUnavailable">>}
      /\ ~IsSome(r.acc) /\ ~IsSome(r.sign_doc) /\ ~IsSome(r.tx_raw)
      /\ ~IsSome(r.sent)
      /\ Count(r.trace, "account") = 1
      /\ Last(r.trace) = "account"

C4_Witness ==
  \E p \in Procs :
    /\ inv[p].signer_account = Some("carol")
    /\ Finished(inv[p])
    /\ Outcome(inv[p]).detail = <<"AccountNotFound">>

\* C7: the transaction handed to the node is the signed one, and its SignDoc
\* carries the sequence and account number the account query returned, the
\* chain id of the invocation, the fee given, and one store-code message with
\* the artifact's bytes and the derived signer as sender.
C7_BroadcastIsWhatWasSigned ==
  \A p \in Procs :
    LET r == inv[p] IN
    IsSome(r.sent) =>
      LET sender == [prefix |-> r.account_prefix.v,
                     pub |-> [pub_of |-> r.signer_priv.v]]
          body == [messages |->
                     <<[type_url |-> "/cosmwasm.wasm.v1.MsgStoreCode",
                        value |-> [sender |-> sender,
                                   wasm_byte_code |-> <<"wasm", "counter.wasm">>,
                                   instantiate_permission |-> None]]>>,
                   memo |-> "", timeout_height |-> r.timeout_height.v]
          auth == [signer_infos |->
                     <<[public_key |-> [pub_of |-> r.signer_priv.v],
                        sequence |-> r.acc.v.sequence]>>,
                   fee |-> [amount |-> [amount |-> r.gas_amount.v,
                                        denom |-> r.denom.v],
                            gas_limit |-> r.gas_limit.v]]
          doc == [body_bytes |-> [bytes_of |-> body],
                  auth_info_bytes |-> [bytes_of |-> auth],
                  chain_id |-> r.chain_id.v,
                  account_number |-> r.acc.v.account_number]
      IN /\ r.sign_doc = Some(doc)
         /\ r.sent = r.tx_raw
         /\ r.sent.v = [body_bytes |-> doc.body_bytes,
                        auth_info_bytes |-> doc.auth_info_bytes,
                        signatures |-> <<[signed_by |-> r.signer_priv.v,
                                          over |-> doc]>>]
         /\ r.signer_account_id = Some(sender)
         /\ r.acc.v.account_number = GenesisAccounts[sender].account_number
         /\ r.acc.v.sequence <= chain[sender].sequence
         /\ Count(r.trace, "account") = 1

\* A transaction broadcast with a sequence the account had reached after an
\* earlier commit.
C7_Witness ==
  \E p \in Procs :
    /\ IsSome(inv[p].sent)
    /\ inv[p].acc.v.sequence = 1
    /\ SignerOf(inv[p].sent.v).sequence = 1

SameFetch(p, q) ==
  /\ IsSome(inv[p].acc) /\ IsSome(inv[q].acc)
  /\ inv[p].signer_account_id = inv[q].signer_account_id
  /\ inv[p].acc.v.sequence = inv[q].acc.v.sequence

Accepted(r) == IsSome(r.resp) /\ r.resp.v.check_tx.code = 0

C8_AtMostOneAccepted ==
  \A p \in Procs : \A q \in Procs \ {p} :
    SameFetch(p, q) =>
      /\ ~(Accepted(inv[p]) /\ Accepted(inv[q]))
      /\ ~(IsSome(inv[p].outcome) /\ Outcome(inv[p]).kind = "Ok" /\
           IsSome(inv[q].outcome) /\ Outcome(inv[q]).kind = "Ok")
      /\ (Accepted(inv[p]) /\ IsSome(inv[q].resp)) =>
           /\ Finished(inv[q])
           /\ Outcome(inv[q]).kind = "Err"
           /\ Outcome(inv[q]).error = "check_tx failed"
      /\ Cardinality({c \in committed :
             /\ SignerIdOf(c.tx) = inv[p].signer_account_id.v
             /\ SignerOf(c.tx).sequence = inv[p].acc.v.sequence}) <= 1

C8_LaterBroadcastIsStale ==
  \A p \in Procs : \A q \in Procs \ {p} :
    (/\ SameFetch(p, q) /\ Accepted(inv[p])
     /\ inv[q].pc = "broadcast" /\ inv'[q].pc # "broadcast"
     /\ IsSome(inv'[q].resp)) =>
      /\ inv'[q].resp.v.check_tx.code = 32
      /\ inv'[q].outcome = Some(Err("check_tx failed", <<32>>))

\* C8: no lock is held across invocations: of two invocations that fetched
\* the same sequence for the same account, the node accepts at most one; the
\* one that broadcasts after the accepted one is answered wrong-sequence and
\* ends with a check_tx failure; the two never both succeed.
C8_RacingInvocations ==
  []C8_AtMostOneAccepted /\ [][C8_LaterBroadcastIsStale]_vars

C8_Witness ==
  \E p \in Procs : \E q \in Procs \ {p} :
    /\ SameFetch(p, q)
    /\ Finished(inv[p]) /\ Outcome(inv[p]).kind = "Ok"
    /\ Finished(inv[q]) /\ Outcome(inv[q]) = Err("check_tx failed", <<32>>)

NamesDistinct(q) ==
  \A i \in 1..Len(q) : \A j \in 1..Len(q) : i # j => q[i].name # q[j].name

====
